---- MODULE Spec2Model ----
(***************************************************************************)
(* time-sched: a Scheduler (src/index.js) that evaluates a registry of     *)
(* Tasks (src/Task.js) on every heartbeat-gated pulse of a                 *)
(* requestAnimationFrame-like driver.                                      *)
(*                                                                         *)
(* A pulse that passes the gate runs one tick pass.  The pass is modelled  *)
(* task by task (pc = "tick"), because a user callback may call back into  *)
(* the scheduler (stop, remove, replace, add ...) before the next task of  *)
(* the same pass is evaluated.  JavaScript is single-threaded, so no       *)
(* outside call interleaves with a pass: outside calls need pc = "idle".   *)
(***************************************************************************)
EXTENDS Integers, Sequences, FiniteSets, TLC

\* ------------------------------------------------------------------ bounds
MaxTime == 4        \* Date.now() ranges over 0..MaxTime
MaxCalls == 4       \* public calls made in one behaviour, from outside or from callbacks

Names == {"A", "B"}
InitHeartbeats == {0, 1, 86400001}
AfterVals == {1}
IntervalVals == {1}
NewIntervalVals == {-1, 0, 2}
IterationVals == {2}

\* ------------------------------------------------------- program constants
min == 0
max == 86400000

NoTask == [type |-> "none"]
NoFire == [type |-> "none"]

\* a pass visited Task object t (as it was before the visit) at time n, with the
\* running flag r, and invoked its callback or not; e is what the callback did
Visited(t, n, r, called, e) ==
  [type |-> "visit", task |-> t, now |-> n, running |-> r, called |-> called, effect |-> e]

\* the value a public method returned
Ret(op, val) == [op |-> op, val |-> val]

VARIABLES
  clock,     \* Date.now()
  running,   \* module-level `running`
  pending,   \* frame callbacks requested from RAF and not yet delivered
  floor,     \* this.min
  wait,      \* this.wait
  lastTick,  \* this.lastTick
  list,      \* this.list: name -> Task or NoTask
  order,     \* Object.keys(this.list): insertion order of the names present
  nextId,    \* identity of the next Task object constructed
  pc,        \* "idle", or "tick" while a pass is in flight
  now,       \* the `now` of the pass in flight
  keys,      \* names of the Object.keys snapshot still to be visited
  ret,       \* value returned by the last public call
  ncalls,    \* history: number of public calls made so far
  resumed,   \* history: start() set the loop going since the last completed pass
  fire,      \* history: the visit a pass made in the last step, or NoFire
  snapshot,  \* history: the Object.keys array of the pass in flight
  thrown,    \* history: identities of the Task objects whose callback threw
  other      \* a second Scheduler of the same module: its outstanding frame
             \* requests and its lastTick (its registry stays empty)

vars == <<clock, running, pending, floor, wait, lastTick, list, order, nextId,
          pc, now, keys, ret, fire, ncalls, resumed, snapshot, thrown, other>>

\* --------------------------------------------------------------- src/Task.js

\* `this.f || 0`: a missing property reads as 0
Field(t, f) == IF f \in DOMAIN t THEN t[f] ELSE 0

\* `this.f = v`: creates the property when it is missing
SetField(t, f, v) == [x \in (DOMAIN t) \cup {f} |-> IF x = f THEN v ELSE t[x]]

\* zletools.isNumber(params.f): a parameter object carries f exactly when the
\* caller supplied a number for it
IsNumber(params, f) == f \in DOMAIN params

\* Validator.validate(params, schemas[type]).valid: the required fields of
\* the schema are present with the right type; `iterations` is optional
Validate(params, type) ==
  /\ "name" \in DOMAIN params
  /\ "callback" \in DOMAIN params
  /\ IF type = "after" THEN "after" \in DOMAIN params ELSE "interval" \in DOMAIN params

TaskType(params) == IF IsNumber(params, "after") THEN "after" ELSE "repeat"

\* new Task(params) completes without throwing
CanConstruct(params) == Validate(params, TaskType(params))

\* new Task(params), constructed at time t as object number id.
\* Two fields are history, not fields of the program's Task:
\*   calls    the number of times the wrapped callback was invoked
\*   skipped  a pass found the task due under its current interval, but inactive
NewTask(params, t, id) ==
  IF TaskType(params) = "after"
  THEN [type |-> "after", name |-> params.name, active |-> TRUE,
        on |-> t + params.after, destroy |-> FALSE, id |-> id, calls |-> 0, skipped |-> FALSE]
  ELSE [type |-> "repeat", name |-> params.name, active |-> TRUE,
        iterations |-> Field(params, "iterations"),
        iteration |-> 0, interval |-> params.interval, lastUpdate |-> 0,
        destroy |-> FALSE, id |-> id, calls |-> 0, skipped |-> FALSE]

enable(t) == [t EXCEPT !.active = TRUE]

\* disable that also forgets the last firing
disableReset(t) ==
  IF "lastUpdate" \in DOMAIN t
  THEN [t EXCEPT !.active = FALSE, !.lastUpdate = 0]
  ELSE [t EXCEPT !.active = FALSE]

disable(t) == [t EXCEPT !.active = FALSE]

\* shouldExecute with the OneShot comparison not strict
shouldExecuteAtDeadline(t, n) ==
  t.active /\ (\/ t.type = "after" /\ n >= Field(t, "on")
               \/ t.type = "repeat" /\ n - Field(t, "lastUpdate") >= Field(t, "interval"))

\* shouldExecute with the Recurring comparison strict
shouldExecuteStrict(t, n) ==
  t.active /\ (\/ t.type = "after" /\ n > Field(t, "on")
               \/ t.type = "repeat" /\ n - Field(t, "lastUpdate") > Field(t, "interval"))

\* shouldExecute firing only at the first instant a task is due
shouldExecuteExact(t, n) ==
  t.active /\ (\/ t.type = "after" /\ n = Field(t, "on") + 1
               \/ t.type = "repeat" /\ n - Field(t, "lastUpdate") = Field(t, "interval"))

shouldExecute(t, n) ==
  LET on == Field(t, "on")
      interval == Field(t, "interval")
      lastUpdate == Field(t, "lastUpdate")
      diff == (n - lastUpdate >= interval)
      afterOK == t.type = "after" /\ n > on
      repeatOK == t.type = "repeat" /\ diff
  IN t.active /\ (afterOK \/ repeatOK)

markForDestroy(t) == [t EXCEPT !.destroy = TRUE]

\* onCallbackTick destroying one firing late
onCallbackTickLate(t, n, t0) ==
  LET iterations == Field(t, "iterations")
      iteration == Field(t, "iteration") + 1
      t1 == SetField(t, "iteration", iteration)
  IN IF t.type = "after" \/ (t.type = "repeat" /\ iterations # 0 /\ iteration > iterations)
     THEN markForDestroy(t1)
     ELSE SetField(t1, "lastUpdate", IF n # 0 THEN n ELSE t0)

\* onCallbackTick advancing lastUpdate by one interval instead of to now
onCallbackTickCatchUp(t, n, t0) ==
  LET iterations == Field(t, "iterations")
      iteration == Field(t, "iteration") + 1
      t1 == SetField(t, "iteration", iteration)
  IN IF t.type = "after" \/ (t.type = "repeat" /\ iterations # 0 /\ iteration >= iterations)
     THEN markForDestroy(t1)
     ELSE SetField(t1, "lastUpdate", Field(t, "lastUpdate") + Field(t, "interval"))

\* n is the argument, t0 is Date.now()
onCallbackTick(t, n, t0) ==
  LET iterations == Field(t, "iterations")
      iteration == Field(t, "iteration") + 1
      t1 == SetField(t, "iteration", iteration)
  IN IF t.type = "after" \/ (t.type = "repeat" /\ iterations # 0 /\ iteration >= iterations)
     THEN markForDestroy(t1)
     ELSE SetField(t1, "lastUpdate", IF n # 0 THEN n ELSE t0)

\* ------------------------------------------------------------- src/index.js

\* The scheduler state a public call reads and writes, as one record
St == [list |-> list, order |-> order, running |-> running, pending |-> pending,
       floor |-> floor, wait |-> wait, nextId |-> nextId, ret |-> ret,
       resumed |-> resumed]

\* A JavaScript value passed to changeWait / changeTaskWait: an integer n, the
\* non-integer number n + 0.5, or a value that is not a number
Num(n) == [kind |-> "int", n |-> n]
Frac(n) == [kind |-> "frac", n |-> n]
NotANumber == [kind |-> "other"]

isNumberValue(val) == val.kind \in {"int", "frac"}

Digit(d) == CASE d = 0 -> "0" [] d = 1 -> "1" [] d = 2 -> "2" [] d = 3 -> "3"
              [] d = 4 -> "4" [] d = 5 -> "5" [] d = 6 -> "6" [] d = 7 -> "7"
              [] d = 8 -> "8" [] d = 9 -> "9"

DigitValue(c) == CASE c = "0" -> 0 [] c = "1" -> 1 [] c = "2" -> 2 [] c = "3" -> 3
                   [] c = "4" -> 4 [] c = "5" -> 5 [] c = "6" -> 6 [] c = "7" -> 7
                   [] c = "8" -> 8 [] c = "9" -> 9

DigitChars == {"0", "1", "2", "3", "4", "5", "6", "7", "8", "9"}

RECURSIVE Digits(_)
Digits(n) == IF n < 10 THEN <<Digit(n)>> ELSE Append(Digits(n \div 10), Digit(n % 10))

\* `${val}` for a number
NumberToString(val) ==
  LET body == IF val.n < 0 THEN <<"-">> \o Digits(0 - val.n) ELSE Digits(val.n)
  IN IF val.kind = "frac" THEN body \o <<".", "5">> ELSE body

\* `{to:${val}}`
WaitString(val) == <<"{", "t", "o", ":">> \o NumberToString(val) \o <<"}">>

\* val.match(/^{to:([0-9]{1,10})}$/): the captured group, or <<>> for no match
MatchWait(str) ==
  LET n == Len(str)
      group == IF n >= 5 THEN SubSeq(str, 5, n - 1) ELSE <<>>
  IN IF /\ n >= 6
        /\ SubSeq(str, 1, 4) = <<"{", "t", "o", ":">>
        /\ str[n] = "}"
        /\ Len(group) <= 10
        /\ \A i \in 1..Len(group) : group[i] \in DigitChars
     THEN group ELSE <<>>

\* Number(match[1])
RECURSIVE ParseNumber(_)
ParseNumber(ds) ==
  IF ds = <<>> THEN 0
  ELSE 10 * ParseNumber(SubSeq(ds, 1, Len(ds) - 1)) + DigitValue(ds[Len(ds)])

\* new Scheduler(heartbeat) for a number heartbeat >= min (for a number below
\* min the constructor throws at the assignment to the constant `heartbeat`,
\* and there is no scheduler)
Construct(heartbeat) ==
  [list |-> [n \in Names |-> NoTask], order |-> <<>>, running |-> FALSE, pending |-> 0,
   floor |-> heartbeat, wait |-> heartbeat, nextId |-> 1, ret |-> Ret("new", "this"),
   resumed |-> FALSE]

has(s, name) == name \in Names /\ s.list[name] # NoTask

\* zletools.isString(name, true): a non-empty string
isString(name) == name # ""

canAdd(s, name) == ~has(s, name) /\ isString(name)

add(s, params, t) ==
  IF canAdd(s, params.name)
  THEN IF CanConstruct(params)
       THEN [s EXCEPT !.list[params.name] = NewTask(params, t, s.nextId),
                      !.order = Append(s.order, params.name),
                      !.nextId = s.nextId + 1,
                      !.ret = Ret("add", "true")]
       ELSE [s EXCEPT !.ret = Ret("add", "false")]
  ELSE [s EXCEPT !.ret = Ret("add", "undefined")]

_doTask(s, name, action) ==
  IF has(s, name)
  THEN [s EXCEPT !.list[name] = IF action = "enable" THEN enable(@) ELSE disable(@),
                 !.ret = Ret(action, "this")]
  ELSE [s EXCEPT !.ret = Ret(action, "this")]

enableTask(s, name) == _doTask(s, name, "enable")

disableTask(s, name) == _doTask(s, name, "disable")

replace(s, params, t) ==
  IF has(s, params.name)
  THEN IF CanConstruct(params)
       THEN [s EXCEPT !.list[params.name] = NewTask(params, t, s.nextId),
                      !.nextId = s.nextId + 1,
                      !.ret = Ret("replace", "true")]
       ELSE [s EXCEPT !.ret = Ret("replace", "false")]
  ELSE [s EXCEPT !.ret = Ret("replace", "false")]

RemoveName(seq, name) == SelectSeq(seq, LAMBDA x : x # name)

remove(s, name) ==
  IF ~isString(name) THEN [s EXCEPT !.ret = Ret("remove", "false")]
  ELSE IF ~has(s, name) THEN [s EXCEPT !.ret = Ret("remove", "false")]
  ELSE [s EXCEPT !.list[name] = NoTask,
                 !.order = RemoveName(s.order, name),
                 !.ret = Ret("remove", "true")]

empty(s) ==
  [s EXCEPT !.list = [n \in Names |-> NoTask], !.order = <<>>, !.ret = Ret("empty", "true")]

\* _getValidWait returns its string (true) or throws (false)
_getValidWait(s, val) == isNumberValue(val) /\ ~(val.kind = "int" /\ val.n = s.wait)

\* the setter checking against the module's `min` instead of this.min
WaitAcceptedNoFloor(s, str) ==
  LET match == MatchWait(str)
      number == ParseNumber(match)
  IN match # <<>> /\ number >= min /\ number <= max

\* the setter accepting only a value that is not below the current one
WaitAcceptedIncreaseOnly(s, str) ==
  LET match == MatchWait(str)
      number == ParseNumber(match)
  IN match # <<>> /\ number >= s.wait /\ number <= max

\* the `wait` setter of _spawnWait assigns (true) or throws out-of-range (false)
WaitAccepted(s, str) ==
  LET match == MatchWait(str)
      number == ParseNumber(match)
  IN match # <<>> /\ number >= s.floor /\ number <= max

changeWait(s, val) ==
  IF _getValidWait(s, val) /\ WaitAccepted(s, WaitString(val))
  THEN [s EXCEPT !.wait = ParseNumber(MatchWait(WaitString(val))),
                 !.ret = Ret("changeWait", "true")]
  ELSE [s EXCEPT !.ret = Ret("changeWait", "false")]

changeTaskWait(s, name, val) ==
  IF has(s, name)
  THEN [s EXCEPT !.list[name] = [SetField(@, "interval", val) EXCEPT !.skipped = FALSE],
                 !.ret = Ret("changeTaskWait", "true")]
  ELSE [s EXCEPT !.ret = Ret("changeTaskWait", "false")]

start(s) ==
  IF ~s.running
  THEN [s EXCEPT !.running = TRUE, !.pending = s.pending + 1, !.resumed = TRUE,
                 !.ret = Ret("start", "this")]
  ELSE [s EXCEPT !.ret = Ret("start", "this")]

stop(s) == [s EXCEPT !.running = FALSE, !.ret = Ret("stop", "this")]

\* ------------------------------------------------------------------ inputs

\* parameter objects handed to add / replace
AfterParams == {[name |-> n, after |-> a, callback |-> "fn"] : n \in Names \cup {""}, a \in AfterVals}
RepeatParams ==
  {[name |-> n, interval |-> i, callback |-> "fn"] : n \in Names, i \in IntervalVals}
  \cup {[name |-> n, interval |-> i, iterations |-> k, callback |-> "fn"] :
          n \in Names, i \in IntervalVals, k \in IterationVals}
BadParams == {[name |-> n, interval |-> i] : n \in Names, i \in IntervalVals}
TaskParams == AfterParams \cup RepeatParams \cup BadParams

\* parameter objects a callback hands to add / replace
CallbackParams == {p \in AfterParams : p.name # ""}

WaitInputs == {Num(n) : n \in {-1, 0, 1, max, max + 1}} \cup {Frac(1), NotANumber}

\* what a user callback does: return, throw, or call back into the scheduler;
\* "fault" is an error raised in the visit that the try/catch of the wrapper
\* does not contain (its catch handler throws in turn), so that it reaches the
\* try/catch of _tick
CallbackEffects ==
  {[op |-> "return"], [op |-> "throw"], [op |-> "fault"], [op |-> "stop"], [op |-> "start"]}
  \cup {[op |-> "remove", name |-> n] : n \in Names}
  \cup {[op |-> "add", params |-> p] : p \in CallbackParams}
  \cup {[op |-> "replace", params |-> p] : p \in CallbackParams}

\* ----------------------------------------------------------------- actions

Install(s) ==
  /\ list' = s.list
  /\ order' = s.order
  /\ running' = s.running
  /\ pending' = s.pending
  /\ wait' = s.wait
  /\ nextId' = s.nextId
  /\ ret' = s.ret
  /\ resumed' = s.resumed
  /\ UNCHANGED floor

\* a call made from outside a tick pass
Outside(s) ==
  /\ pc = "idle"
  /\ ncalls < MaxCalls
  /\ ncalls' = ncalls + 1
  /\ Install(s)
  /\ fire' = NoFire
  /\ UNCHANGED <<clock, lastTick, pc, now, keys, snapshot, thrown, other>>

Init ==
  /\ \E h \in InitHeartbeats :
       LET s == Construct(h)
       IN /\ list = s.list
          /\ order = s.order
          /\ running = s.running
          /\ pending = s.pending
          /\ floor = s.floor
          /\ wait = s.wait
          /\ nextId = s.nextId
          /\ ret = s.ret
          /\ resumed = s.resumed
  /\ clock = 0
  /\ lastTick = 0
  /\ pc = "idle"
  /\ now = 0
  /\ keys = <<>>
  /\ fire = NoFire
  /\ ncalls = 0
  /\ snapshot = <<>>
  /\ thrown = {}
  /\ other = [pending |-> 0, lastTick |-> 0]

AdvanceClock ==
  /\ pc = "idle"
  /\ clock < MaxTime
  /\ clock' = clock + 1
  /\ fire' = NoFire
  /\ UNCHANGED <<running, pending, floor, wait, lastTick, list, order, nextId,
                 pc, now, keys, ret, ncalls, resumed, snapshot, thrown, other>>

Add == \E p \in TaskParams : Outside(add(St, p, clock))

Replace == \E p \in TaskParams : Outside(replace(St, p, clock))

Remove == \E n \in Names \cup {""} : Outside(remove(St, n))

Empty == Outside(empty(St))

EnableTask == \E n \in Names : Outside(enableTask(St, n))

DisableTask == \E n \in Names : Outside(disableTask(St, n))

ChangeWait == \E v \in WaitInputs : Outside(changeWait(St, v))

ChangeTaskWait == \E n \in Names, v \in NewIntervalVals : Outside(changeTaskWait(St, n, v))

Start == Outside(start(St))

Stop == Outside(stop(St))

\* the gate with the comparison not strict
DueOrEqual(n, last, w) == n - last >= w

\* `delta > this.wait` in the frame callback of _loop
Due(n, last, w) == n - last > w

\* the times at which the frame callback calls _tick, for pulses delivered at
\* the given times, starting from lastTick = last
RECURSIVE TickTimes(_, _, _)
TickTimes(pulses, last, w) ==
  IF pulses = <<>> THEN <<>>
  ELSE IF Due(Head(pulses), last, w)
       THEN <<Head(pulses)>> \o TickTimes(Tail(pulses), Head(pulses), w)
       ELSE TickTimes(Tail(pulses), last, w)

\* The frame callback of _loop up to the point where _tick starts to visit
\* the registry; a pulse that runs no pass is complete in this one step.
Pulse ==
  /\ pc = "idle"
  /\ pending > 0
  /\ fire' = NoFire
  /\ UNCHANGED <<thrown, other>>
  /\ IF Due(clock, lastTick, wait)
     THEN IF running
          THEN /\ pc' = "tick"
               /\ now' = clock
               /\ keys' = order
               /\ snapshot' = order
               /\ pending' = pending - 1
               /\ UNCHANGED <<clock, running, floor, wait, lastTick, list, order,
                              nextId, ret, ncalls, resumed>>
          ELSE /\ lastTick' = clock
               /\ pending' = pending - 1
               /\ UNCHANGED <<clock, running, floor, wait, list, order, nextId,
                              pc, now, keys, ret, ncalls, resumed, snapshot>>
     ELSE /\ pending' = IF running THEN pending ELSE pending - 1
          /\ UNCHANGED <<clock, running, floor, wait, lastTick, list, order,
                         nextId, pc, now, keys, ret, ncalls, resumed, snapshot>>

\* the callback calls a public method, which counts against MaxCalls
IsCall(e) == e.op \notin {"return", "throw", "fault"}

EffectEnabled(e) == IsCall(e) => ncalls < MaxCalls

\* fn(instance): the user callback
Effect(s, e, t) ==
  CASE e.op = "stop" -> stop(s)
    [] e.op = "start" -> start(s)
    [] e.op = "remove" -> remove(s, e.name)
    [] e.op = "add" -> add(s, e.params, t)
    [] e.op = "replace" -> replace(s, e.params, t)
    [] OTHER -> s

\* a check of the name only, not of the object
SameName(s, name, id) == has(s, name)

\* `task === list[name]` for the Task object constructed as number id
SameTask(s, name, id) == has(s, name) /\ s.list[name].id = id

\* the wrapper of Task.spawnCallback, called on the object in list[name]
callback(s, name, e, n, t) ==
  LET id == s.list[name].id
      s1 == [s EXCEPT !.list[name] =
               [onCallbackTick(@, n, t) EXCEPT !.calls = @ + 1, !.skipped = FALSE]]
      s2 == Effect(s1, e, t)
  IN IF e.op = "throw" /\ SameTask(s2, name, id)
     THEN [s2 EXCEPT !.list[name] = markForDestroy(@)]
     ELSE s2

\* the wrapper without its catch: a callback that throws is not marked
CalledNoCatch(task, e, n, t) == onCallbackTick(task, n, t)

\* the Task object `task` of _tick once task.callback(now) has returned: the
\* wrapper ran onCallbackTick on it and, if fn threw, markForDestroy
Called(task, e, n, t) ==
  LET o == onCallbackTick(task, n, t)
  IN IF e.op = "throw" THEN markForDestroy(o) ELSE o

\* a destroy check that leaves the removal to the end of the pass
SweepLater(s, name, task) == s

\* `if ((task === list[name]) && task.destroy === true) this.remove(name)`,
\* with `task` the object the visit started with, as it is now
Sweep(s, name, task) ==
  IF SameTask(s, name, task.id) /\ task.destroy THEN remove(s, name) ELSE s

\* a catch block that only logs
AbortKeep(s, taskName) == s

\* the catch block of _tick: `this.remove(taskName)`
Abort(s, taskName) == remove(s, taskName)

\* a forEach that also visits the names a callback added to the registry
RestOfKeysLive(ks, before, after) ==
  Tail(ks) \o SelectSeq(after.order,
                        LAMBDA x : ~has(before, x) /\ \A i \in 1..Len(ks) : ks[i] # x)

\* forEach moves on to the next element of the array Object.keys returned,
\* whatever the visit did to the registry (before -> after)
RestOfKeys(ks, before, after) == Tail(ks)

\* history only: note that the pass found list[name] due but inactive
Skip(s, name, n) ==
  IF shouldExecute(enable(s.list[name]), n)
  THEN [s EXCEPT !.list[name].skipped = TRUE]
  ELSE s

\* one iteration of the forEach of _tick; an error that reaches the catch of
\* _tick ends the forEach
TickStep ==
  /\ pc = "tick"
  /\ keys # <<>>
  /\ UNCHANGED <<clock, lastTick, pc, now, snapshot, other>>
  /\ LET name == Head(keys)
         s == St
     IN IF has(s, name)
        THEN LET task == s.list[name]
             IN IF shouldExecute(task, now)
                THEN \E e \in CallbackEffects :
                       /\ EffectEnabled(e)
                       /\ LET s1 == callback(s, name, e, now, clock)
                              s2 == IF e.op = "fault" THEN Abort(s1, name)
                                    ELSE Sweep(s1, name, Called(task, e, now, clock))
                          IN /\ Install([s2 EXCEPT !.ret = ret])
                             /\ keys' = IF e.op = "fault" THEN <<>>
                                        ELSE RestOfKeys(keys, s, s2)
                       /\ fire' = Visited(task, now, s.running, TRUE, e.op)
                       /\ ncalls' = IF IsCall(e) THEN ncalls + 1 ELSE ncalls
                       /\ thrown' = IF e.op \in {"throw", "fault"}
                                    THEN thrown \cup {task.id} ELSE thrown
                ELSE LET s2 == Sweep(Skip(s, name, now), name, task)
                     IN /\ Install([s2 EXCEPT !.ret = ret])
                        /\ keys' = RestOfKeys(keys, s, s2)
                        /\ fire' = Visited(task, now, s.running, FALSE, "none")
                        /\ UNCHANGED <<ncalls, thrown>>
        ELSE /\ Install(s)
             /\ keys' = RestOfKeys(keys, s, s)
             /\ fire' = NoFire
             /\ UNCHANGED <<ncalls, thrown>>

\* the frame callback of _loop after _tick has returned
TickEnd ==
  /\ pc = "tick"
  /\ keys = <<>>
  /\ lastTick' = now
  /\ pending' = IF running THEN pending + 1 ELSE pending
  /\ pc' = "idle"
  /\ now' = 0
  /\ fire' = NoFire
  /\ resumed' = FALSE
  /\ snapshot' = <<>>
  /\ UNCHANGED <<clock, running, floor, wait, list, order, nextId, keys, ret, ncalls,
                 thrown, other>>

Next ==
  \/ AdvanceClock
  \/ Add
  \/ Replace
  \/ Remove
  \/ Empty
  \/ EnableTask
  \/ DisableTask
  \/ ChangeWait
  \/ ChangeTaskWait
  \/ Start
  \/ Stop
  \/ Pulse
  \/ TickStep
  \/ TickEnd

Spec == Init /\ [][Next]_vars

\* ------------------------------------------------- a second Scheduler
\* `running` is a variable of the module src/index.js, so a second
\* `new Scheduler(0)` reads and writes the same flag.  Its registry is left
\* empty: its passes visit nothing.

\* a call made on the second Scheduler from outside a tick pass
OtherCall ==
  /\ pc = "idle"
  /\ ncalls < MaxCalls
  /\ ncalls' = ncalls + 1
  /\ fire' = NoFire
  /\ UNCHANGED <<clock, pending, floor, wait, lastTick, list, order, nextId, pc, now,
                 keys, ret, resumed, snapshot, thrown>>

\* start() on the second Scheduler
OtherStart ==
  /\ OtherCall
  /\ IF ~running
     THEN running' = TRUE /\ other' = [other EXCEPT !.pending = @ + 1]
     ELSE UNCHANGED <<running, other>>

\* stop() on the second Scheduler
OtherStop ==
  /\ OtherCall
  /\ running' = FALSE
  /\ UNCHANGED other

\* a frame callback of the second Scheduler: _tick over its empty registry
OtherPulse ==
  /\ pc = "idle"
  /\ other.pending > 0
  /\ fire' = NoFire
  /\ other' = [pending |-> IF running THEN other.pending ELSE other.pending - 1,
               lastTick |-> IF Due(clock, other.lastTick, Construct(min).wait)
                            THEN clock ELSE other.lastTick]
  /\ UNCHANGED <<clock, running, pending, floor, wait, lastTick, list, order, nextId,
                 pc, now, keys, ret, ncalls, resumed, snapshot, thrown>>

NextTwo ==
  \/ AdvanceClock
  \/ Add
  \/ Start
  \/ Stop
  \/ Pulse
  \/ TickStep
  \/ TickEnd
  \/ OtherStart
  \/ OtherStop
  \/ OtherPulse

TwoInstances == Init /\ [][NextTwo]_vars

\* ------------------------------------------------------------ properties

\* the Task object constructed as number id is in the registry l
Registered(l, id) == \E m \in Names : l[m].type # "none" /\ l[m].id = id

RegisteredTasks == {list[n] : n \in {m \in Names : list[m].type # "none"}}

\* a Task without its history fields
Program(t) == IF t.type = "none" THEN t ELSE [t EXCEPT !.calls = 0, !.skipped = FALSE]

NoDuplicates(seq) == \A i, j \in 1..Len(seq) : seq[i] = seq[j] => i = j

\* heartbeat 250, lastTick 0: pulses at 0, 100, 200, 300 tick once, at 300
C1_Example == TickTimes(<<0, 100, 200, 300>>, 0, 250) = <<300>>

\* C1: a pulse starts a tick pass only if now - lastTick > wait (strictly), with
\* `now` the time of the pulse; a pulse with now - lastTick <= wait invokes no
\* callback and leaves lastTick, the registry and every task as they were;
\* lastTick only ever moves by more than the heartbeat.  With heartbeat 250,
\* pulses at 0, 100, 200, 300 give exactly one tick, at 300.
C1_HeartbeatGating ==
  [][ /\ (pc = "idle" /\ pc' = "tick") => (clock - lastTick > wait /\ now' = clock)
      /\ (Pulse /\ clock - lastTick <= wait) =>
           (UNCHANGED <<lastTick, list, order, pc, keys, now>> /\ fire' = NoFire)
      /\ lastTick' # lastTick => lastTick' - lastTick > wait
      /\ C1_Example ]_vars

\* a pulse is about to be delivered exactly one heartbeat after the last tick,
\* which fired a task that is due again
C1_Witness ==
  /\ pc = "idle" /\ running /\ pending > 0
  /\ wait > 0 /\ lastTick > 0 /\ clock - lastTick = wait
  /\ \E t \in RegisteredTasks : t.calls > 0 /\ shouldExecute(t, clock)

\* C2: an active OneShot task visited by a pass fires if and only if now > on;
\* once fired its object is gone from the registry by the end of that very
\* visit, so no registered OneShot has ever been invoked; a visit that does not
\* fire leaves it as it was.
C2_OneShotSingleFire ==
  /\ \A t \in RegisteredTasks : t.type = "after" => t.calls = 0
  /\ (fire.type = "visit" /\ fire.task.type = "after" /\ fire.task.active) =>
       /\ fire.called <=> fire.now > fire.task.on
       /\ fire.called => (fire.task.calls = 0 /\ ~Registered(list, fire.task.id))
       /\ ~fire.called => list[fire.task.name] = fire.task

\* a OneShot has just fired, at the first instant after its deadline, and is no
\* longer registered
C2_Witness ==
  /\ fire.type = "visit" /\ fire.called /\ fire.task.type = "after"
  /\ fire.now = fire.task.on + 1
  /\ ~Registered(list, fire.task.id)

\* interval 1000: fires at 1000, not at 1999, again at 2000
C3_Example ==
  LET t0 == NewTask([name |-> "A", interval |-> 1000, callback |-> "fn"], 0, 1)
      t1 == onCallbackTick(t0, 1000, 1000)
  IN /\ t0.lastUpdate = 0 /\ shouldExecute(t0, 1000)
     /\ t1.iteration = 1 /\ t1.lastUpdate = 1000
     /\ ~shouldExecute(t1, 1999) /\ shouldExecute(t1, 2000)

\* C3: an active Recurring task visited by a pass fires if and only if
\* now - lastUpdate >= interval; a firing after which the task is still
\* registered sets lastUpdate = now and adds exactly 1 to iteration; a visit
\* that does not fire changes nothing of the task.  With interval 1000: fires
\* at 1000 (iteration 1, lastUpdate 1000), not at 1999, again at 2000.
C3_RecurringInterval ==
  /\ (fire.type = "visit" /\ fire.task.type = "repeat" /\ fire.task.active) =>
       /\ fire.called <=> (fire.now - fire.task.lastUpdate >= fire.task.interval)
       /\ (fire.called /\ Registered(list, fire.task.id)) =>
            /\ list[fire.task.name].lastUpdate = fire.now
            /\ list[fire.task.name].iteration = fire.task.iteration + 1
       /\ ~fire.called => list[fire.task.name] = fire.task
  /\ C3_Example

\* a Recurring task that had fired before has fired again and is still
\* registered
C3_Witness ==
  /\ fire.type = "visit" /\ fire.called /\ fire.task.type = "repeat"
  /\ fire.task.calls > 0 /\ fire.task.lastUpdate > 0
  /\ Registered(list, fire.task.id)
  /\ list[fire.task.name].lastUpdate = fire.now

\* C4: for a Recurring task with iterations = N > 0: iteration never exceeds N
\* and is the number of invocations made so far (so it never decreases); the
\* callback is only invoked while fewer than N invocations were made; the N-th
\* invocation removes the task from the registry in that very visit; an
\* earlier invocation that returns normally keeps it registered.
C4_IterationLimit ==
  /\ \A t \in RegisteredTasks :
       (t.type = "repeat" /\ t.iterations > 0) =>
          (t.iteration <= t.iterations /\ t.calls = t.iteration)
  /\ (fire.type = "visit" /\ fire.task.type = "repeat" /\ fire.task.iterations > 0) =>
       /\ fire.task.calls = fire.task.iteration
       /\ fire.called =>
            /\ fire.task.calls < fire.task.iterations
            /\ fire.task.calls + 1 = fire.task.iterations => ~Registered(list, fire.task.id)
            /\ (fire.task.calls + 1 < fire.task.iterations /\ fire.effect = "return") =>
                 /\ Registered(list, fire.task.id)
                 /\ list[fire.task.name].iteration = fire.task.iteration + 1

\* the second and last invocation of a task limited to 2 iterations was just
\* made, its callback returned normally, and the task is gone
C4_Witness ==
  /\ fire.type = "visit" /\ fire.called /\ fire.task.type = "repeat"
  /\ fire.effect = "return"
  /\ fire.task.iterations = 2 /\ fire.task.calls = 1
  /\ ~Registered(list, fire.task.id)

\* C5: stop() and start() change no task and do not touch the registry; in the
\* first pass after a restart a due, active Recurring task is invoked, once
\* (each name is visited once per pass), and its lastUpdate becomes now,
\* however many intervals were missed.
C5_StopPreservesState ==
  /\ stop(St).list = list /\ stop(St).order = order
  /\ start(St).list = list /\ start(St).order = order
  /\ NoDuplicates(keys)
  /\ fire.type = "visit" => fire.task.name \notin {keys[i] : i \in 1..Len(keys)}
  /\ (fire.type = "visit" /\ resumed /\ fire.task.type = "repeat" /\ fire.task.active
        /\ fire.now - fire.task.lastUpdate >= fire.task.interval) =>
       /\ fire.called
       /\ Registered(list, fire.task.id) =>
            /\ list[fire.task.name].calls = fire.task.calls + 1
            /\ list[fire.task.name].lastUpdate = fire.now

\* in the first pass after a restart, a task that had fired before fires again,
\* two or more intervals after its last firing
C5_Witness ==
  /\ fire.type = "visit" /\ fire.called /\ resumed /\ fire.task.type = "repeat"
  /\ fire.task.calls >= 1 /\ fire.task.interval > 0
  /\ fire.now - fire.task.lastUpdate >= 2 * fire.task.interval
  /\ Registered(list, fire.task.id)
  /\ list[fire.task.name].calls = fire.task.calls + 1

\* C6: every invocation of a task callback by the scheduler happens with
\* running = true, also for the tasks that follow, in the same pass, a callback
\* that called stop().
C6_NoCallbackWhileStopped == (fire.type = "visit" /\ fire.called) => fire.running

\* C7: disabling and enabling a task change nothing but its active flag, and
\* are idempotent; a pass that visits an inactive task invokes no callback and
\* leaves its fields alone; the firing decision of a Recurring task once
\* enabled is now - lastUpdate >= interval with the lastUpdate it had.
C7_DisableFreezes ==
  /\ \A n \in Names :
       LET d == disableTask(St, n)
           e == enableTask(St, n)
       IN /\ d.order = order /\ e.order = order
          /\ \A m \in Names : m # n => (d.list[m] = list[m] /\ e.list[m] = list[m])
          /\ ~has(St, n) => (d.list = list /\ e.list = list)
          /\ has(St, n) =>
               /\ d.list[n] = [list[n] EXCEPT !.active = FALSE]
               /\ e.list[n] = [list[n] EXCEPT !.active = TRUE]
               /\ list[n].type = "repeat" =>
                    \A x \in 0..MaxTime :
                      shouldExecute(e.list[n], x) <=> (x - list[n].lastUpdate >= list[n].interval)
          /\ disableTask(d, n).list = d.list
          /\ enableTask(e, n).list = e.list
  /\ (fire.type = "visit" /\ ~fire.task.active) =>
       /\ ~fire.called
       /\ Program(list[fire.task.name]) = Program(fire.task)

\* a Recurring task that fired, was disabled, was passed over by a pass while
\* due, has just been enabled again
C7_Witness ==
  /\ pc = "idle" /\ ret.op = "enable"
  /\ \E t \in RegisteredTasks :
       t.type = "repeat" /\ t.active /\ t.skipped /\ t.lastUpdate > 0

C9_DuplicateAddRejected ==
  \A p \in TaskParams :
    LET a == add(St, p, clock)
    IN IF has(St, p.name)
       THEN a.ret.val = "false" /\ a.list = list /\ a.order = order
       ELSE (isString(p.name) /\ CanConstruct(p)) => (a.ret.val = "true" /\ has(a, p.name))

\* constructed with 500: changeWait(100) fails, changeWait(1000) sets 1000
C10_Example ==
  LET s == Construct(500)
  IN /\ changeWait(s, Num(100)) = [s EXCEPT !.ret = Ret("changeWait", "false")]
     /\ changeWait(s, Num(1000)) = [s EXCEPT !.wait = 1000, !.ret = Ret("changeWait", "true")]

\* C10: changeWait(v) returns false and leaves the heartbeat as it was when v
\* is the current heartbeat, is not a number, or lies outside [floor, max].
\* Constructed with 500: changeWait(100) fails and leaves 500, changeWait(1000)
\* succeeds and sets 1000.
C10_ChangeWaitRejects ==
  /\ \A v \in WaitInputs :
       (\/ ~isNumberValue(v)
        \/ v.kind = "int" /\ (v.n = wait \/ v.n < floor \/ v.n > max)) =>
         changeWait(St, v) = [St EXCEPT !.ret = Ret("changeWait", "false")]
  /\ C10_Example

\* a changeWait was just rejected after an earlier one had raised the heartbeat
C10_Witness == ret = Ret("changeWait", "false") /\ floor > 0 /\ wait > floor

\* constructed with 500 and raised to 1000: changeWait(500) is accepted
C11_Example ==
  LET s == changeWait(Construct(500), Num(1000))
  IN /\ s.wait = 1000
     /\ changeWait(s, Num(500)) = [s EXCEPT !.wait = 500]
     /\ changeWait(s, Num(499)) = [s EXCEPT !.ret = Ret("changeWait", "false")]

\* C11 as stated: a changeWait to a value below the current heartbeat fails and
\* leaves the heartbeat unchanged, even if the value is >= floor.
C11_OnlyIncreasable ==
  \A v \in WaitInputs :
    (v.kind = "int" /\ v.n < wait) =>
       changeWait(St, v) = [St EXCEPT !.ret = Ret("changeWait", "false")]

\* C11 amended: a changeWait to an integer below the current heartbeat fails,
\* leaving the heartbeat unchanged, exactly when the value is below floor; a
\* value in [floor, heartbeat) is accepted and becomes the heartbeat.
\* Constructed with 500 and raised to 1000: changeWait(500) sets 500,
\* changeWait(499) fails.
C11_FloorOnly ==
  /\ \A v \in WaitInputs :
       (v.kind = "int" /\ v.n < wait) =>
          changeWait(St, v) =
            IF v.n >= floor
            THEN [St EXCEPT !.wait = v.n, !.ret = Ret("changeWait", "true")]
            ELSE [St EXCEPT !.ret = Ret("changeWait", "false")]
  /\ C11_Example

\* a changeWait has just succeeded and the heartbeat is the floor: it had been
\* raised (the current value is never accepted) and was lowered again
C11_Witness == ret = Ret("changeWait", "true") /\ wait = floor /\ floor <= max

\* C12: floor <= heartbeat <= max in every reachable state, for a scheduler
\* constructed with any numeric heartbeat.
C12_HeartbeatInRange == floor <= wait /\ wait <= max

\* the elements of seq that follow the first occurrence of x
RECURSIVE After(_, _)
After(seq, x) ==
  IF seq = <<>> THEN <<>>
  ELSE IF Head(seq) = x THEN Tail(seq) ELSE After(Tail(seq), x)

\* the visit the pass is about to make invokes the callback of list[Head(keys)]
AboutToFire ==
  /\ pc = "tick" /\ keys # <<>>
  /\ has(St, Head(keys))
  /\ shouldExecute(list[Head(keys)], now)

\* the registry after the visit about to be made, if its callback does e
AfterVisit(e) ==
  Sweep(callback(St, Head(keys), e, now, clock), Head(keys),
        Called(list[Head(keys)], e, now, clock))

\* C13: a task whose callback throws is marked for destruction and removed in
\* that very visit, and its object is never registered (so never invoked)
\* again; the exception stays inside the visit: the pass goes on with the
\* names that follow in the snapshot, no other task is touched by the failing
\* visit, and every task a pass visits is fired exactly when it is active and
\* due.
C13_FailureIsolation ==
  /\ \A id \in thrown : ~Registered(list, id)
  /\ fire.type = "visit" =>
       /\ fire.called <=> shouldExecute(fire.task, fire.now)
       /\ (fire.called /\ fire.effect \notin {"throw", "fault"}) => fire.task.id \notin thrown
       /\ fire.effect = "throw" =>
            /\ pc = "tick"
            /\ keys = After(snapshot, fire.task.name)
            /\ fire.task.id \in thrown
  /\ AboutToFire =>
       LET a == AfterVisit([op |-> "throw"])
       IN /\ ~has(a, Head(keys))
          /\ \A m \in Names : m # Head(keys) => a.list[m] = list[m]
          /\ a.running = running

\* the callback of an unlimited Recurring task has just thrown, the task is
\* gone, and the next name of the pass is a registered task that is due
C13_Witness ==
  /\ fire.type = "visit" /\ fire.effect = "throw"
  /\ fire.task.type = "repeat" /\ fire.task.iterations = 0
  /\ ~Registered(list, fire.task.id)
  /\ AboutToFire

\* C14: changeTaskWait(name, v) returns false and changes nothing for a name
\* that is not registered and for a registered OneShot task (no interval field
\* is created); for a registered Recurring task it returns true and sets
\* interval = v, leaving lastUpdate and iteration as they were.
C14_ChangeTaskWaitRecurringOnly ==
  \A n \in Names, v \in NewIntervalVals :
    LET c == changeTaskWait(St, n, v)
    IN IF has(St, n) /\ list[n].type = "repeat"
       THEN /\ c.ret = Ret("changeTaskWait", "true")
            /\ c.list[n].interval = v
            /\ c.list[n].lastUpdate = list[n].lastUpdate
            /\ c.list[n].iteration = list[n].iteration
       ELSE /\ c.ret = Ret("changeTaskWait", "false")
            /\ c.list = list

\* C15: remove of a name that is empty or not registered returns false and
\* leaves the registry as it was; replace of a name that is not registered
\* returns false and adds nothing; replace and add with parameters that fail
\* the schema return false and leave the registry as it was.
C15_FailedOperationsNoEffect ==
  /\ \A n \in Names \cup {""} :
       ~has(St, n) => remove(St, n) = [St EXCEPT !.ret = Ret("remove", "false")]
  /\ \A p \in TaskParams :
       /\ ~has(St, p.name) =>
            replace(St, p, clock) = [St EXCEPT !.ret = Ret("replace", "false")]
       /\ ~CanConstruct(p) =>
            /\ replace(St, p, clock) = [St EXCEPT !.ret = Ret("replace", "false")]
            /\ add(St, p, clock) = [St EXCEPT !.ret = Ret("add", "false")]

\* C17: every Recurring task in the registry has interval >= 0.
C17_IntervalNonNegative ==
  \A t \in RegisteredTasks : t.type = "repeat" => t.interval >= 0

\* the visit recorded in `fire` invoked the callback and marked its task for
\* destruction: a OneShot, a Recurring task reaching its limit, or a throw
MarkedInVisit ==
  /\ fire.type = "visit" /\ fire.called
  /\ (onCallbackTick(fire.task, fire.now, fire.now).destroy \/ fire.effect = "throw")

\* C16 as stated: a task marked for destruction during a pass is still in the
\* registry as long as tasks of that pass remain to be evaluated.
C16_RemovedAtEndOfPass ==
  (MarkedInVisit /\ fire.effect \in {"return", "throw"} /\ pc = "tick" /\ keys # <<>>) =>
     Registered(list, fire.task.id)

\* C16 amended: the scheduler removes a task at the end of its own visit,
\* mid-pass: a task marked for destruction in its visit is out of the registry
\* when that visit ends, also with other tasks of the pass still to be
\* evaluated, so no registered task is left marked; and the destroy check of a
\* visit removes nothing but the task visited.
C16_RemovedAfterOwnVisit ==
  /\ MarkedInVisit => ~Registered(list, fire.task.id)
  /\ \A t \in RegisteredTasks : ~t.destroy
  /\ (pc = "tick" /\ keys # <<>> /\ has(St, Head(keys))) =>
       LET name == Head(keys)
       IN /\ Sweep(St, name, list[name]) = St
          /\ AboutToFire =>
               \A e \in CallbackEffects :
                 LET s1 == callback(St, name, e, now, clock)
                 IN \A m \in Names :
                      m # name => AfterVisit(e).list[m] = s1.list[m]

\* a OneShot has fired and is gone while another registered task of the same
\* pass is still to be evaluated
C16_Witness ==
  /\ MarkedInVisit /\ fire.effect = "return" /\ fire.task.type = "after"
  /\ pc = "tick" /\ keys # <<>> /\ has(St, Head(keys))
  /\ ~Registered(list, fire.task.id)

\* C18: (a) a name of the snapshot that is no longer registered when its turn
\* comes is passed over: nothing is evaluated, no callback is invoked, the
\* registry stays as it is; (b) when the callback of a task replaces its own
\* name, the destroy check of that visit leaves the new Task object in the
\* registry, also when the old object was marked for destruction.
C18_MutationInsidePass ==
  [][ /\ (pc = "tick" /\ keys # <<>> /\ ~has(St, Head(keys))) =>
           /\ list' = list /\ order' = order
           /\ fire' = NoFire /\ thrown' = thrown /\ ncalls' = ncalls
           /\ keys' = Tail(keys)
      /\ AboutToFire =>
           \A e \in CallbackEffects :
             (e.op = "replace" /\ e.params.name = Head(keys)) =>
                /\ has(AfterVisit(e), Head(keys))
                /\ AfterVisit(e).list[Head(keys)] = NewTask(e.params, clock, nextId) ]_vars

\* a OneShot has fired, its callback replaced its own name, and the new Task
\* object is in the registry after the visit
C18_Witness ==
  /\ fire.type = "visit" /\ fire.effect = "replace" /\ fire.task.type = "after"
  /\ has(St, fire.task.name)
  /\ list[fire.task.name].id = nextId - 1
  /\ list[fire.task.name].id # fire.task.id

\* a name of the snapshot, removed by the callback just invoked, is next
C18_RemovedIsNext ==
  /\ pc = "tick" /\ keys # <<>> /\ ~has(St, Head(keys))
  /\ fire.type = "visit" /\ fire.effect = "remove"

Range(seq) == {seq[i] : i \in 1..Len(seq)}

\* C19: a pass evaluates each name at most once: the names of its snapshot are
\* distinct, the names still to be visited are a tail of the snapshot, and a
\* name that was visited is not among them; a name that is registered but not
\* in the snapshot (it was added by a callback of this pass) is not among the
\* names to be visited and its callback has not been invoked.
C19_OncePerPass ==
  pc = "tick" =>
    /\ NoDuplicates(snapshot)
    /\ \E k \in 0..Len(snapshot) : keys = SubSeq(snapshot, k + 1, Len(snapshot))
    /\ fire.type = "visit" =>
         /\ fire.task.name \in Range(snapshot)
         /\ fire.task.name \notin Range(keys)
    /\ \A n \in Names :
         (has(St, n) /\ n \notin Range(snapshot)) =>
            (n \notin Range(keys) /\ list[n].calls = 0)

\* a callback has just added a name that the snapshot of the pass does not hold
C19_Witness ==
  /\ pc = "tick" /\ fire.type = "visit" /\ fire.effect = "add"
  /\ \E n \in Names : has(St, n) /\ n \notin Range(snapshot) /\ list[n].id = nextId - 1

\* C20: when an error raised in the visit of a task gets past the wrapper, it
\* is caught by _tick: the pass ends there (no name is left to visit, and the
\* loop goes on to its end-of-pass step), the name that was being evaluated is
\* out of the registry, and every other task stays registered as it was.
C20_TickFault ==
  /\ (fire.type = "visit" /\ fire.effect = "fault") =>
       /\ pc = "tick" /\ keys = <<>>
       /\ ~has(St, fire.task.name)
       /\ fire.task.id \in thrown
  /\ AboutToFire =>
       LET s1 == callback(St, Head(keys), [op |-> "fault"], now, clock)
           a == Abort(s1, Head(keys))
       IN /\ ~has(a, Head(keys))
          /\ \A m \in Names : m # Head(keys) => a.list[m] = list[m]
          /\ a.order = RemoveName(order, Head(keys))

\* the visit of an unlimited Recurring task faulted with a registered, due
\* task still waiting in the snapshot: the pass is over, the faulting task is
\* gone and the other one is still registered
C20_Witness ==
  /\ fire.type = "visit" /\ fire.effect = "fault"
  /\ fire.task.type = "repeat" /\ fire.task.iterations = 0
  /\ keys = <<>> /\ ~has(St, fire.task.name)
  /\ \E n \in Range(After(snapshot, fire.task.name)) :
       has(St, n) /\ shouldExecute(list[n], now)

\* C21: at most one frame request of the scheduler is outstanding at any
\* time, whatever the interleaving of start(), stop() and pulses, from outside
\* or from a callback; and once running is false and no request is
\* outstanding, none is made until start() sets running again.
C21_SinglePulseRequest ==
  [][ /\ pending' <= 1
      /\ (~running /\ pending = 0 /\ ~running') => pending' = 0 ]_vars

\* C22: start() and stop() on one Scheduler leave the running flag of another
\* Scheduler as it was, and start() on a Scheduler whose loop is not going (no
\* frame request of its own outstanding) begins its loop, whatever other
\* Schedulers exist or were started.
C22_RunningPerInstance ==
  [][ /\ (OtherStart \/ OtherStop) => running' = running
      /\ (Start /\ ret'.op = "start" /\ pending = 0) => pending' > 0 ]_vars

====
